---- MODULE Spec2Model ----
(***************************************************************************)
(* The page-status state machine of the Bengali book OCR application       *)
(* (src/App.tsx): PDF upload, page selection, batch dispatch of OCR calls, *)
(* single-page retry and the resolution of the OCR promises.               *)
(*                                                                         *)
(* One action is one run of an event handler or of a promise continuation  *)
(* to its next await: the JavaScript event loop runs each to completion,   *)
(* and React applies the queued functional updates in order.  A handler    *)
(* reads the state of the latest render, and a control can be used only    *)
(* when that render shows it enabled, so the conditions of the JSX are     *)
(* part of the guards.  The continuation of await Promise.all runs in the  *)
(* microtasks of the task that settles the last promise, so it belongs to  *)
(* that step.                                                              *)
(***************************************************************************)
EXTENDS Integers, Sequences, FiniteSets, TLC

\* Largest number of pages a decoded PDF has in the model.
MaxPages == 2

\* Identifiers crypto.randomUUID can return: one more than a page list can
\* hold, so that some identifier is always absent from the list.
IdPool == 1..(MaxPages + 1)

\* src/unnamed/part_000:1-6
PENDING == "PENDING"
PROCESSING == "PROCESSING"
COMPLETED == "COMPLETED"
FAILED == "FAILED"
PageStatus == {PENDING, PROCESSING, COMPLETED, FAILED}

\* The value of an optional field that is not set (text?: string, error?: string).
undefined == "<undefined>"

\* Texts the OCR service returns; the empty string is a legal result.
Texts == {"", "bangla"}

\* Values a failed OCR call throws: an Error with a message, or something
\* that is not an Error.
Thrown == {[kind |-> "Error", val |-> "quota exceeded"], [kind |-> "other", val |-> "oops"]}

\* The ways one extractTextFromImage promise settles.
Outcomes == {[kind |-> "text", val |-> t] : t \in Texts} \cup Thrown

\* A promise that has not settled yet.
Unsettled == [kind |-> "pending", val |-> ""]

\* File arguments of handlePdfFile: no file, a file of another type, a PDF.
Files == {"null", "image/png", "application/pdf"}

VARIABLES
    pages,          \* useState<Page[]>: sequence of [id, file, status, text, error]
    selectedPages,  \* useState<Set<string>>
    isProcessing,   \* useState<boolean>
    isPdfLoading,   \* useState<boolean>
    running,        \* which async handler is suspended at its await: "none", "batch", "retry"
    calls,          \* extractTextFromImage promises of the current or last operation:
                    \* page id -> Unsettled or the outcome it settled with
    lastOp          \* the handler that ran last and what it was given

vars == <<pages, selectedPages, isProcessing, isPdfLoading, running, calls, lastOp>>

\* lastOp: op is the handler, arg the page identifier (retry, toggle) or page
\* count (decoded PDF) it was given, file the file it was given, seen the
\* values of allProcessableSelected that the latest consecutive runs of
\* handleSelectAll found (at most two), nulls the PDF pages that did not
\* render, before the selection set a toggle found.
Op(name, arg) ==
    [op |-> name, arg |-> arg, file |-> "", seen |-> <<>>, nulls |-> {}, before |-> {}]

----------------------------------------------------------------------------
\* Helpers over the page list

PageIds(ps) == {ps[i].id : i \in DOMAIN ps}

HasPage(ps, pageId) == \E i \in DOMAIN ps : ps[i].id = pageId

PageOf(ps, pageId) == ps[CHOOSE i \in DOMAIN ps : ps[i].id = pageId]

\* const file = new File([blob], `page_${pageNum}.jpg`, ...);
\* const newPage: Page = { id, file, status: PENDING, previewUrl }
\* (file is kept as the page number in its name)
NewPage(id, pageNum) ==
    [id |-> id, file |-> pageNum, status |-> PENDING,
     text |-> undefined, error |-> undefined]

\* prev.map(p => p.id === page.id ? { ...p, status: PROCESSING } : p)
MarkProcessing(prev, pageId) ==
    [i \in DOMAIN prev |->
        IF prev[i].id = pageId THEN [prev[i] EXCEPT !.status = PROCESSING] ELSE prev[i]]

\* RetryMarkProcessing without error: undefined, as the batch does it.
RetryMarkProcessingKeepError(prev, pageId) == MarkProcessing(prev, pageId)

\* prev.map(p => p.id === pageId ? { ...p, status: PROCESSING, error: undefined } : p)
RetryMarkProcessing(prev, pageId) ==
    [i \in DOMAIN prev |->
        IF prev[i].id = pageId
        THEN [prev[i] EXCEPT !.status = PROCESSING, !.error = undefined]
        ELSE prev[i]]

\* MarkCompleted with the text left out of the update.
MarkCompletedWithoutText(prev, pageId, text) ==
    [i \in DOMAIN prev |->
        IF prev[i].id = pageId THEN [prev[i] EXCEPT !.status = COMPLETED] ELSE prev[i]]

\* prev.map(p => p.id === page.id ? { ...p, status: COMPLETED, text } : p)
MarkCompleted(prev, pageId, text) ==
    [i \in DOMAIN prev |->
        IF prev[i].id = pageId
        THEN [prev[i] EXCEPT !.status = COMPLETED, !.text = text]
        ELSE prev[i]]

\* MarkFailed with filter in place of map: the failed page leaves the list.
MarkFailedDropsPage(prev, pageId, errorMessage) ==
    SelectSeq(prev, LAMBDA p : p.id # pageId)

\* prev.map(p => p.id === page.id ? { ...p, status: FAILED, error: errorMessage } : p)
MarkFailed(prev, pageId, errorMessage) ==
    [i \in DOMAIN prev |->
        IF prev[i].id = pageId
        THEN [prev[i] EXCEPT !.status = FAILED, !.error = errorMessage]
        ELSE prev[i]]

\* error instanceof Error ? error.message : 'An unknown error occurred.'
ErrorMessage(error) ==
    IF error.kind = "Error" THEN error.val ELSE "An unknown error occurred."

\* Settle without the catch block: a rejected call updates no page.
SettleUncaught(prev, pageId, outcome) ==
    IF outcome.kind = "text" THEN MarkCompleted(prev, pageId, outcome.val) ELSE prev

\* try { text = await extractTextFromImage(page); ... } catch (error) { ... }
Settle(prev, pageId, outcome) ==
    IF outcome.kind = "text"
    THEN MarkCompleted(prev, pageId, outcome.val)
    ELSE MarkFailed(prev, pageId, ErrorMessage(outcome))

----------------------------------------------------------------------------
\* Initial state: the useState initial values.

Init ==
    /\ pages = <<>>
    /\ selectedPages = {}
    /\ isProcessing = FALSE
    /\ isPdfLoading = FALSE
    /\ running = "none"
    /\ calls = <<>>
    /\ lastOp = Op("init", 0)

----------------------------------------------------------------------------
\* What the render shows, computed from the state (useMemo values and the
\* conditions under which the controls exist or are enabled).

\* processablePageIds mapping each page to its position instead of its id.
processablePagePositions ==
    {j \in DOMAIN pages : pages[j].status \in {PENDING, FAILED}}

\* pages.filter(p => p.status === PENDING || p.status === FAILED).map(p => p.id)
processablePageIds ==
    {pages[i].id : i \in {j \in DOMAIN pages : pages[j].status \in {PENDING, FAILED}}}

\* processablePageIds.length > 0 && processablePageIds.every(id => selectedPages.has(id))
allProcessableSelected ==
    /\ processablePageIds # {}
    /\ \A id \in processablePageIds : id \in selectedPages

\* {!isProcessing && pages.length === 0 && !isPdfLoading && ( <drop zone, file input> )}
UploadZoneShown == ~isProcessing /\ Len(pages) = 0 /\ ~isPdfLoading

\* {pages.length > 0 && ( <select-all, Process Selected, page tiles> )}
PagePanelShown == Len(pages) > 0

\* select-all checkbox: disabled={processablePageIds.length === 0 || isProcessing}
SelectAllEnabled == PagePanelShown /\ ~(processablePageIds = {} \/ isProcessing)

\* Process Selected button: disabled={selectedPages.size === 0 || isProcessing}
ProcessSelectedEnabled == PagePanelShown /\ ~(selectedPages = {} \/ isProcessing)

\* RetryButtonShown with the button on every page tile.
RetryButtonShownOnAnyPage(pageId) == PagePanelShown /\ HasPage(pages, pageId)

\* {page.status === FAILED && ( <retry button> )}
RetryButtonShown(pageId) ==
    PagePanelShown /\ HasPage(pages, pageId) /\ PageOf(pages, pageId).status = FAILED

\* JavaScript truthiness of an optional string: set and not empty.
Truthy(str) == str # undefined /\ str # ""

\* pages.findIndex(originalPage => originalPage.id === p.id)  (0-based)
FindIndex(ps, pageId) ==
    (CHOOSE i \in DOMAIN ps :
        ps[i].id = pageId /\ \A j \in DOMAIN ps : ps[j].id = pageId => i <= j) - 1

\* HeaderAndText numbered by the position among the filtered pages.
HeaderAndTextByFilteredIndex(ps, p, index) == [number |-> index + 1, text |-> p.text]

\* One element of the array that combinedText joins:
\* `--- <page word> ${originalIndex + 1} ---\n\n${p.text}`
HeaderAndText(ps, p, index) == [number |-> FindIndex(ps, p.id) + 1, text |-> p.text]

\* combinedText before .join('\n\n'): the filtered pages, each mapped to its
\* header number and text, in the order join concatenates them.
combinedText ==
    LET completed == SelectSeq(pages, LAMBDA p : p.status = COMPLETED /\ Truthy(p.text))
    IN  [k \in DOMAIN completed |-> HeaderAndText(pages, completed[k], k - 1)]

----------------------------------------------------------------------------
\* handlePdfFile, up to its first await

\* The guard without its type test: only a missing file is rejected.
FileRejectedOnlyIfMissing(pdfFile) == pdfFile = "null"

\* if (!pdfFile || pdfFile.type !== 'application/pdf') { alert(...); return; }
FileRejected(pdfFile) == pdfFile = "null" \/ pdfFile # "application/pdf"

HandlePdfFile(pdfFile) ==
    /\ UploadZoneShown
    /\ IF FileRejected(pdfFile)
       THEN UNCHANGED <<pages, selectedPages, isPdfLoading>>
       ELSE /\ pages' = <<>>
            /\ selectedPages' = {}
            /\ isPdfLoading' = TRUE
    /\ lastOp' = [Op("handlePdfFile", 0) EXCEPT !.file = pdfFile]
    /\ UNCHANGED <<isProcessing, running, calls>>

\* The identifiers crypto.randomUUID() gives n new pages. The handlers only
\* compare identifiers for equality, so two assignments stand for all of
\* them: one where a page's identifier is its position and one where it is not.
FreshIds(n) == {[i \in 1..n |-> i], [i \in 1..n |-> MaxPages + 2 - i]}

\* The page numbers 1..numPages without those in nulls, in ascending order:
\* Array.from({ length: pdf.numPages }, ...) with the null results filtered out.
RECURSIVE RenderedPageNums(_, _, _)
RenderedPageNums(pageNum, numPages, nulls) ==
    IF pageNum > numPages THEN <<>>
    ELSE (IF pageNum \in nulls THEN <<>> ELSE <<pageNum>>)
            \o RenderedPageNums(pageNum + 1, numPages, nulls)

\* RenderedPages with the results in the reverse of the PDF's page order.
RenderedPagesReversed(numPages, nulls, ids) ==
    LET pageNums == RenderedPageNums(1, numPages, nulls)
    IN  [i \in DOMAIN pageNums |-> NewPage(ids[i], pageNums[Len(pageNums) + 1 - i])]

\* (await Promise.all(pagePromises)).filter(p => p !== null): the pages that
\* rendered, in PDF page order, each with a fresh identifier.
RenderedPages(numPages, nulls, ids) ==
    LET pageNums == RenderedPageNums(1, numPages, nulls)
    IN  [i \in DOMAIN pageNums |-> NewPage(ids[i], pageNums[i])]

\* handlePdfFile after its awaits, decoding succeeded: numPages pages, of which
\* those in nulls produced no canvas context or no blob.
PdfLoaded(numPages, nulls, ids) ==
    /\ isPdfLoading
    /\ Len(ids) = numPages - Cardinality(nulls)
    /\ pages' = RenderedPages(numPages, nulls, ids)
    /\ isPdfLoading' = FALSE
    /\ lastOp' = [Op("pdfLoaded", numPages) EXCEPT !.nulls = nulls]
    /\ UNCHANGED <<selectedPages, isProcessing, running, calls>>

\* PdfFailed without the finally block: the loading flag is never reset.
PdfFailedWithoutFinally ==
    /\ isPdfLoading
    /\ lastOp' = Op("pdfFailed", 0)
    /\ UNCHANGED <<pages, selectedPages, isPdfLoading, isProcessing, running, calls>>

\* handlePdfFile after its awaits, getDocument, getPage or render threw:
\* catch { alert } finally { setIsPdfLoading(false) }
PdfFailed ==
    /\ isPdfLoading
    /\ isPdfLoading' = FALSE
    /\ lastOp' = Op("pdfFailed", 0)
    /\ UNCHANGED <<pages, selectedPages, isProcessing, running, calls>>

----------------------------------------------------------------------------
\* Selection

\* ToggleSelection without the delete branch.
ToggleSelectionAddsOnly(prev, pageId) == prev \cup {pageId}

\* handleToggleSelectPage: the click handler of a page tile and of its checkbox
ToggleSelection(prev, pageId) ==
    IF pageId \in prev THEN prev \ {pageId} ELSE prev \cup {pageId}

HandleToggleSelectPage(pageId) ==
    /\ PagePanelShown
    /\ HasPage(pages, pageId)
    /\ selectedPages' = ToggleSelection(selectedPages, pageId)
    /\ lastOp' = [Op("handleToggleSelectPage", pageId) EXCEPT !.before = selectedPages]
    /\ UNCHANGED <<pages, isProcessing, isPdfLoading, running, calls>>

\* handleSelectAll without the deselect branch.
SelectAllAlwaysSelects == processablePageIds

\* handleSelectAll
SelectAllResult ==
    IF allProcessableSelected THEN {} ELSE processablePageIds

HandleSelectAll ==
    /\ SelectAllEnabled
    /\ selectedPages' = SelectAllResult
    /\ lastOp' = [Op("handleSelectAll", 0) EXCEPT
                    !.seen = IF lastOp.op = "handleSelectAll"
                             THEN <<lastOp.seen[Len(lastOp.seen)], allProcessableSelected>>
                             ELSE <<allProcessableSelected>>]
    /\ UNCHANGED <<pages, isProcessing, isPdfLoading, running, calls>>

----------------------------------------------------------------------------
\* processSelectedPages

\* pagesToProcess without the filter on the selection.
pagesToProcessUnfiltered == pages

\* const pagesToProcess = pages.filter(p => selectedPages.has(p.id))
pagesToProcess == SelectSeq(pages, LAMBDA p : p.id \in selectedPages)

\* Skipped with the status test dropped: every selected page is dispatched.
SkippedNever(page) == FALSE

\* if (page.status !== PENDING && page.status !== FAILED) return;
Skipped(page) == page.status # PENDING /\ page.status # FAILED

\* The identifiers of the pages for which extractTextFromImage is called.
Dispatched(toProcess) ==
    {toProcess[i].id : i \in {j \in DOMAIN toProcess : ~Skipped(toProcess[j])}}

\* The page list after the map callbacks ran to their await, one
\* setPages(prev => ...) per page that is not skipped, in list order.
RECURSIVE MarkAllProcessing(_, _)
MarkAllProcessing(prev, toProcess) ==
    IF toProcess = <<>> THEN prev
    ELSE MarkAllProcessing(
            IF Skipped(Head(toProcess)) THEN prev
            ELSE MarkProcessing(prev, Head(toProcess).id),
            Tail(toProcess))

\* AllSettled as Promise.race would have it: one settled promise is enough.
AnySettled(cs) == \E id \in DOMAIN cs : cs[id] # Unsettled

\* await Promise.all(processingPromises) has every promise settled
AllSettled(cs) == \A id \in DOMAIN cs : cs[id] # Unsettled

\* setSelectedPages(new Set()) after the await
SelectionAfterBatch == {}

\* The click on Process Selected: the handler up to await Promise.all, and
\* past it in the same task when no page was dispatched.
ProcessSelectedPages ==
    /\ ProcessSelectedEnabled
    /\ selectedPages # {}
    /\ LET toProcess == pagesToProcess
           started == [id \in Dispatched(toProcess) |-> Unsettled]
       IN  /\ pages' = MarkAllProcessing(pages, toProcess)
           /\ calls' = started
           /\ IF AllSettled(started)
              THEN /\ selectedPages' = SelectionAfterBatch
                   /\ isProcessing' = FALSE
                   /\ running' = "none"
              ELSE /\ isProcessing' = TRUE
                   /\ running' = "batch"
                   /\ UNCHANGED selectedPages
    /\ lastOp' = Op("processSelectedPages", 0)
    /\ UNCHANGED isPdfLoading

\* One extractTextFromImage promise of the batch settles: the rest of its map
\* callback runs, and, when it was the last one, the rest of
\* processSelectedPages.
BatchCallSettles(pageId, outcome) ==
    /\ running = "batch"
    /\ pageId \in DOMAIN calls
    /\ calls[pageId] = Unsettled
    /\ pages' = Settle(pages, pageId, outcome)
    /\ calls' = [calls EXCEPT ![pageId] = outcome]
    /\ IF AllSettled(calls')
       THEN /\ selectedPages' = SelectionAfterBatch
            /\ isProcessing' = FALSE
            /\ running' = "none"
       ELSE UNCHANGED <<selectedPages, isProcessing, running>>
    /\ lastOp' = Op("batchCallSettled", 0)
    /\ UNCHANGED <<isPdfLoading>>

----------------------------------------------------------------------------
\* retryPageProcessing

\* RetryIgnored without the isProcessing test.
RetryIgnoredOnlyIfMissing(pageId) == ~HasPage(pages, pageId)

\* const pageToRetry = pages.find(p => p.id === pageId);
\* if (!pageToRetry || isProcessing) return;
RetryIgnored(pageId) == ~HasPage(pages, pageId) \/ isProcessing

\* RetrySelection as the comment "Temporarily add to selection and process"
\* describes it: the retried page is put into the selection.
RetrySelectionAddsPage(prev, pageId) == prev \cup {pageId}

\* const tempSelection = new Set([pageId]) is built and never given to
\* setSelectedPages: the retry leaves the selection as it is.
RetrySelection(prev, pageId) == prev

\* The click on a page's retry button, or a call with an identifier the page
\* list does not hold: the handler up to its await.
RetryPageProcessing(pageId) ==
    /\ RetryButtonShown(pageId) \/ ~HasPage(pages, pageId)
    /\ IF RetryIgnored(pageId)
       THEN UNCHANGED <<pages, selectedPages, isProcessing, running, calls>>
       ELSE /\ isProcessing' = TRUE
            /\ selectedPages' = RetrySelection(selectedPages, pageId)
            /\ pages' = RetryMarkProcessing(pages, pageId)
            /\ calls' = [id \in {pageId} |-> Unsettled]
            /\ running' = "retry"
    /\ lastOp' = Op("retryPageProcessing", pageId)
    /\ UNCHANGED <<isPdfLoading>>

\* The retry's extractTextFromImage promise settles: the rest of the handler.
RetryCallSettles(pageId, outcome) ==
    /\ running = "retry"
    /\ pageId \in DOMAIN calls
    /\ calls[pageId] = Unsettled
    /\ pages' = Settle(pages, pageId, outcome)
    /\ calls' = [calls EXCEPT ![pageId] = outcome]
    /\ isProcessing' = FALSE
    /\ running' = "none"
    /\ lastOp' = Op("retryCallSettled", 0)
    /\ UNCHANGED <<selectedPages, isPdfLoading>>

----------------------------------------------------------------------------
Next ==
    \/ \E pdfFile \in Files : HandlePdfFile(pdfFile)
    \/ \E numPages \in 0..MaxPages : \E nulls \in SUBSET (1..numPages) :
         \E ids \in FreshIds(numPages - Cardinality(nulls)) :
            PdfLoaded(numPages, nulls, ids)
    \/ PdfFailed
    \/ \E pageId \in IdPool : HandleToggleSelectPage(pageId)
    \/ HandleSelectAll
    \/ ProcessSelectedPages
    \/ \E pageId \in IdPool : \E outcome \in Outcomes : BatchCallSettles(pageId, outcome)
    \/ \E pageId \in IdPool : RetryPageProcessing(pageId)
    \/ \E pageId \in IdPool : \E outcome \in Outcomes : RetryCallSettles(pageId, outcome)

Spec == Init /\ [][Next]_vars

\* While extractTextFromImage calls are outstanding one of them settles
\* eventually (the OCR service answers or the transport fails); user actions
\* and PDF decoding are under no such obligation.
CallsSettle ==
    WF_vars(\E pageId \in IdPool : \E outcome \in Outcomes :
                BatchCallSettles(pageId, outcome) \/ RetryCallSettles(pageId, outcome))

LiveSpec == Spec /\ CallsSettle

----------------------------------------------------------------------------
\* Properties

\* The step is a run of the handler named op.
Ran(op) == lastOp'.op = op

StatusOf(pageId) == PageOf(pages, pageId).status

\* C1: in every reachable state every page's status is one of Pending,
\* Processing, Completed, Failed, and a page has its text set if and only if
\* its status is Completed.
C1_StatusAndText ==
    \A i \in DOMAIN pages :
        /\ pages[i].status \in PageStatus
        /\ (pages[i].text # undefined) <=> (pages[i].status = COMPLETED)

\* A state where the cases of C1 occur together: a Completed page with its
\* text and a Failed page without text.
C1_Witness ==
    /\ \E i \in DOMAIN pages : pages[i].status = COMPLETED /\ pages[i].text \in Texts
    /\ \E i \in DOMAIN pages : pages[i].status = FAILED /\ pages[i].text = undefined

\* C2: in every reachable state a page has an error message only when its
\* status is Failed; a Failed page re-dispatched by a batch carries no error
\* while Processing nor once Completed.
C2_ErrorOnlyWhenFailed ==
    \A i \in DOMAIN pages :
        (pages[i].error # undefined) => (pages[i].status = FAILED)

\* C3: every change of a page's status is Pending -> Processing,
\* Processing -> Completed, Processing -> Failed or Failed -> Processing.
AllowedTransitions ==
    {<<PENDING, PROCESSING>>, <<PROCESSING, COMPLETED>>,
     <<PROCESSING, FAILED>>, <<FAILED, PROCESSING>>}

C3_Transitions ==
    [][\A pageId \in PageIds(pages) \cap PageIds(pages') :
          LET from == PageOf(pages, pageId).status
              to == PageOf(pages', pageId).status
          IN  from # to => <<from, to>> \in AllowedTransitions]_vars

\* A state reached through Pending -> Processing -> Failed -> Processing:
\* a retry has put a Failed page back to Processing, beside a Completed page.
C3_Witness ==
    /\ running = "retry"
    /\ \E pageId \in DOMAIN calls : StatusOf(pageId) = PROCESSING
    /\ \E i \in DOMAIN pages : pages[i].status = COMPLETED

\* The step completes a batch dispatch: processSelectedPages runs past its
\* await Promise.all, when the last call settles or, with nothing dispatched,
\* in the task of the click.
BatchCompletes ==
    \/ running = "batch" /\ running' # "batch"
    \/ Ran("processSelectedPages") /\ running' # "batch"

\* C4: at the moment a batch dispatch completes (isProcessing is set back to
\* false) the selection set is empty and no page has status Processing,
\* whatever was toggled while the batch was in flight.
C4_BatchCompletion ==
    [][BatchCompletes =>
          /\ isProcessing' = FALSE
          /\ selectedPages' = {}
          /\ \A i \in DOMAIN pages' : pages'[i].status # PROCESSING]_vars

\* A state right after a batch of two calls completed.
C4_Witness ==
    /\ lastOp.op = "batchCallSettled"
    /\ running = "none"
    /\ Cardinality(DOMAIN calls) >= 2
    /\ selectedPages = {}
    /\ ~isProcessing

\* C5: a batch dispatch processes exactly the pages that are selected at
\* dispatch time and are then Pending or Failed: each becomes Processing, and
\* then Completed with the returned text when its call succeeds or Failed
\* with an error message when it fails; every other page keeps its status,
\* text and error.
C5_DispatchStep ==
    Ran("processSelectedPages") =>
        /\ Len(pages') = Len(pages)
        /\ \A i \in DOMAIN pages :
              IF pages[i].id \in selectedPages /\ pages[i].status \in {PENDING, FAILED}
              THEN /\ pages'[i].id = pages[i].id
                   /\ pages'[i].status = PROCESSING
                   /\ pages[i].id \in DOMAIN calls'
                   /\ calls'[pages[i].id] = Unsettled
              ELSE /\ pages'[i] = pages[i]
                   /\ pages[i].id \notin DOMAIN calls'

C5_SettleStep ==
    Ran("batchCallSettled") =>
        \E pageId \in DOMAIN calls :
            /\ calls[pageId] = Unsettled
            /\ calls'[pageId] \in Outcomes
            /\ \A other \in DOMAIN calls \ {pageId} : calls'[other] = calls[other]
            /\ Len(pages') = Len(pages)
            /\ \A i \in DOMAIN pages :
                  IF pages[i].id = pageId
                  THEN IF calls'[pageId].kind = "text"
                       THEN /\ pages'[i].status = COMPLETED
                            /\ pages'[i].text = calls'[pageId].val
                       ELSE /\ pages'[i].status = FAILED
                            /\ pages'[i].error # undefined
                  ELSE pages'[i] = pages[i]

C5_OthersKept ==
    running = "batch" =>
        \A i \in DOMAIN pages :
            pages[i].id \notin DOMAIN calls => pages'[i] = pages[i]

C5_BatchProcessesSelected ==
    [][C5_DispatchStep /\ C5_SettleStep /\ C5_OthersKept]_vars

\* A batch in flight that dispatched one selected page and skipped another
\* selected page, which is Completed.
C5_Witness ==
    /\ running = "batch"
    /\ \E pageId \in DOMAIN calls :
          /\ calls[pageId] = Unsettled
          /\ StatusOf(pageId) = PROCESSING
    /\ \E i \in DOMAIN pages :
          /\ pages[i].id \notin DOMAIN calls
          /\ pages[i].id \in selectedPages
          /\ pages[i].status = COMPLETED

Finished(pageId) ==
    HasPage(pages, pageId) /\ StatusOf(pageId) \in {COMPLETED, FAILED}

\* C6: provided every OCR call settles, every page dispatched in a batch
\* eventually is Completed or Failed whatever the other calls do, and the
\* batch eventually completes (isProcessing false again); a call that
\* succeeds makes its page Completed even when other dispatched pages have
\* Failed.
C6_SuccessCompletes ==
    Ran("batchCallSettled") =>
        \A pageId \in DOMAIN calls :
            (calls[pageId] = Unsettled /\ calls'[pageId].kind = "text")
                => PageOf(pages', pageId).status = COMPLETED

C6_BatchProgress ==
    /\ (running = "batch") ~>
          (/\ running = "none"
           /\ ~isProcessing
           /\ \A pageId \in DOMAIN calls : Finished(pageId))
    /\ [][C6_SuccessCompletes]_vars

\* A completed batch in which one call failed and another succeeded.
C6_Witness ==
    /\ lastOp.op = "batchCallSettled"
    /\ running = "none"
    /\ ~isProcessing
    /\ \E a, b \in DOMAIN calls :
          /\ calls[a].kind \in {"Error", "other"} /\ StatusOf(a) = FAILED
          /\ calls[b].kind = "text" /\ StatusOf(b) = COMPLETED

\* The page a run of retryPageProcessing was asked for.
Retried == lastOp'.arg

\* C7: retrying a Failed page while nothing is in flight sets the page to
\* Processing with its error cleared; provided the OCR call settles, the page
\* ends Completed with text or Failed with a new error message; no other
\* page's status, text or error changes.
C7_RetryStart ==
    (/\ Ran("retryPageProcessing")
     /\ ~isProcessing
     /\ HasPage(pages, Retried)
     /\ PageOf(pages, Retried).status = FAILED) =>
        /\ Len(pages') = Len(pages)
        /\ \A i \in DOMAIN pages :
              IF pages[i].id = Retried
              THEN /\ pages'[i].status = PROCESSING
                   /\ pages'[i].error = undefined
                   /\ pages'[i].text = pages[i].text
                   /\ calls' = [id \in {Retried} |-> Unsettled]
              ELSE pages'[i] = pages[i]

C7_RetrySettle ==
    Ran("retryCallSettled") =>
        /\ Len(pages') = Len(pages)
        /\ \A i \in DOMAIN pages :
              IF pages[i].id \in DOMAIN calls
              THEN LET outcome == calls'[pages[i].id]
                   IN  \/ /\ outcome.kind = "text"
                          /\ pages'[i].status = COMPLETED
                          /\ pages'[i].text = outcome.val
                          /\ pages'[i].error = undefined
                       \/ /\ outcome.kind # "text"
                          /\ pages'[i].status = FAILED
                          /\ pages'[i].error = ErrorMessage(outcome)
                          /\ pages'[i].error # undefined
              ELSE pages'[i] = pages[i]

C7_OthersKept ==
    running = "retry" =>
        \A i \in DOMAIN pages :
            pages[i].id \notin DOMAIN calls => pages'[i] = pages[i]

C7_Retry ==
    /\ [][C7_RetryStart /\ C7_RetrySettle /\ C7_OthersKept]_vars
    /\ (running = "retry") ~>
          (/\ running = "none"
           /\ \A pageId \in DOMAIN calls : Finished(pageId))

\* A retry that has just ended with the page Failed again, beside another
\* page that is Completed.
C7_Witness ==
    /\ lastOp.op = "retryCallSettled"
    /\ \E pageId \in DOMAIN calls :
          /\ StatusOf(pageId) = FAILED
          /\ PageOf(pages, pageId).error = ErrorMessage(calls[pageId])
    /\ \E i \in DOMAIN pages : pages[i].status = COMPLETED

\* C8: a retry requested while a batch dispatch or another retry is in
\* flight, or for an identifier that is not in the page list, starts no OCR
\* call and leaves every page, the selection set and isProcessing unchanged.
C8_RetryIgnored ==
    [][(Ran("retryPageProcessing") /\ (isProcessing \/ ~HasPage(pages, Retried))) =>
          UNCHANGED <<pages, selectedPages, isProcessing, isPdfLoading, running, calls>>]_vars

\* The retry button of a Failed page was clicked while a batch was in flight.
C8_Witness ==
    /\ lastOp.op = "retryPageProcessing"
    /\ running = "batch"
    /\ HasPage(pages, lastOp.arg)
    /\ StatusOf(lastOp.arg) = FAILED
    /\ \E pageId \in DOMAIN calls : calls[pageId] = Unsettled

\* A retry was requested for an identifier the page list does not hold.
C8_WitnessMissing ==
    /\ lastOp.op = "retryPageProcessing"
    /\ Len(pages) > 0
    /\ ~HasPage(pages, lastOp.arg)

\* What a page is after its call settled, by the outcome of that call alone.
PageByOutcome(pageId, outcome) ==
    IF outcome.kind = "text"
    THEN [id |-> pageId, status |-> COMPLETED, text |-> outcome.val, error |-> undefined]
    ELSE [id |-> pageId, status |-> FAILED, text |-> undefined,
          error |-> ErrorMessage(outcome)]

\* C9: when the calls of one batch settle, in any order, then after all of
\* them have settled each dispatched page's status, text and error are
\* determined by the outcome of its own call alone.
C9_FinalStateByOwnOutcome ==
    (/\ lastOp.op = "batchCallSettled"
     /\ running = "none"
     /\ Cardinality(DOMAIN calls) >= 2) =>
        \A pageId \in DOMAIN calls :
            LET page == PageOf(pages, pageId)
                expected == PageByOutcome(pageId, calls[pageId])
            IN  /\ page.status = expected.status
                /\ page.text = expected.text
                /\ page.error = expected.error

\* The part of C9 that is about the order of settlement: status and text of
\* every dispatched page, and the error of every page whose call failed,
\* follow from the page's own outcome.
C9_StatusAndTextByOwnOutcome ==
    (lastOp.op = "batchCallSettled" /\ running = "none") =>
        \A pageId \in DOMAIN calls :
            LET page == PageOf(pages, pageId)
                expected == PageByOutcome(pageId, calls[pageId])
            IN  /\ page.status = expected.status
                /\ page.text = expected.text
                /\ page.status = FAILED => page.error = expected.error

\* C10 as stated: with a Pending or Failed page and nothing processed in
\* between, select-all followed by select-all leaves the selection empty, and
\* the first of the two makes the selection the set of Pending/Failed pages.
C10_SelectAllTwice ==
    lastOp.op = "handleSelectAll" =>
        /\ Len(lastOp.seen) = 2 => selectedPages = {}
        /\ Len(lastOp.seen) = 1 => selectedPages = processablePageIds

\* C10, amended: the same, provided not every Pending/Failed page is already
\* selected when select-all is invoked the first time.
C10_SelectThenDeselect ==
    (lastOp.op = "handleSelectAll" /\ lastOp.seen[1] = FALSE) =>
        /\ Len(lastOp.seen) = 2 => selectedPages = {}
        /\ Len(lastOp.seen) = 1 =>
              (selectedPages = processablePageIds /\ selectedPages # {})

\* Select-all was invoked twice in a row, the first time with a Pending or
\* Failed page unselected, and a Completed page is in the list too.
C10_Witness ==
    /\ lastOp.op = "handleSelectAll"
    /\ lastOp.seen = <<FALSE, TRUE>>
    /\ selectedPages = {}
    /\ processablePageIds # {}
    /\ \E i \in DOMAIN pages : pages[i].status = COMPLETED

\* C11: when PDF decoding fails the upload leaves nothing behind: the page
\* list is empty, the selection set is empty and the PDF-loading flag is false.
C11_FailedUploadLeavesNothing ==
    lastOp.op = "pdfFailed" =>
        /\ pages = <<>>
        /\ selectedPages = {}
        /\ isPdfLoading = FALSE

\* The state right after a PDF failed to decode.
C11_Witness ==
    /\ lastOp.op = "pdfFailed"
    /\ pages = <<>>
    /\ ~isPdfLoading

\* The pages of a freshly loaded list: all Pending, no text, no error.
AllFresh ==
    \A i \in DOMAIN pages :
        /\ pages[i].status = PENDING
        /\ pages[i].text = undefined
        /\ pages[i].error = undefined

\* C12 as stated: a successful upload of an N-page PDF yields exactly N pages,
\* in PDF page order, all Pending without text or error, and an empty
\* selection set.
C12_ExactlyNPages ==
    lastOp.op = "pdfLoaded" =>
        /\ Len(pages) = lastOp.arg
        /\ \A i \in DOMAIN pages : pages[i].file = i
        /\ AllFresh
        /\ selectedPages = {}

\* C12, amended: the upload yields exactly the pages of the PDF that rendered
\* (a 2D context and an image blob were obtained), in PDF page order, all
\* Pending without text or error, and an empty selection set; these are all
\* N pages when every page renders.
C12_RenderedPages ==
    lastOp.op = "pdfLoaded" =>
        /\ Len(pages) = lastOp.arg - Cardinality(lastOp.nulls)
        /\ {pages[i].file : i \in DOMAIN pages} = (1..lastOp.arg) \ lastOp.nulls
        /\ \A i, j \in DOMAIN pages : i < j => pages[i].file < pages[j].file
        /\ \A i, j \in DOMAIN pages : i # j => pages[i].id # pages[j].id
        /\ AllFresh
        /\ selectedPages = {}
        /\ lastOp.nulls = {} =>
              (Len(pages) = lastOp.arg /\ \A i \in DOMAIN pages : pages[i].file = i)

\* A PDF of two pages, both rendered, has just been loaded.
C12_Witness ==
    /\ lastOp.op = "pdfLoaded"
    /\ lastOp.arg = 2
    /\ lastOp.nulls = {}
    /\ Len(pages) = 2

\* C13: the combined text holds text of Completed pages only, in page-list
\* order, each under a header with the page's 1-based position in the page
\* list, not its position among the Completed pages.
C13_CombinedText ==
    /\ \A k \in DOMAIN combinedText :
          LET n == combinedText[k].number
          IN  /\ n \in DOMAIN pages
              /\ pages[n].status = COMPLETED
              /\ pages[n].text = combinedText[k].text
    /\ \A k, l \in DOMAIN combinedText :
          k < l => combinedText[k].number < combinedText[l].number
    /\ \A i \in DOMAIN pages :
          pages[i].status # COMPLETED =>
              \A k \in DOMAIN combinedText : combinedText[k].number # i

\* The first page is Failed and the second Completed: the combined text is
\* the second page's text under header number 2.
C13_Witness ==
    /\ Len(pages) = 2
    /\ pages[1].status = FAILED
    /\ pages[2].status = COMPLETED
    /\ combinedText = <<[number |-> 2, text |-> "bangla"]>>

\* C14: no retry is automatic. A Failed page stays Failed with its error over
\* every step that is neither a retry of that page nor a batch dispatch whose
\* selection holds that page.
C14_NoAutomaticRetry ==
    [][\A i \in DOMAIN pages :
          (/\ pages[i].status = FAILED
           /\ ~(Ran("retryPageProcessing") /\ Retried = pages[i].id)
           /\ ~(Ran("processSelectedPages") /\ pages[i].id \in selectedPages))
              => /\ i \in DOMAIN pages'
                 /\ pages'[i] = pages[i]]_vars

\* A batch has just completed with a failure while a page that failed before
\* it, and was not part of it, is still Failed.
C14_Witness ==
    /\ lastOp.op = "batchCallSettled"
    /\ \E pageId \in DOMAIN calls : calls[pageId].kind = "other" /\ StatusOf(pageId) = FAILED
    /\ \E i \in DOMAIN pages :
          /\ pages[i].id \notin DOMAIN calls
          /\ pages[i].status = FAILED
          /\ pages[i].error = "quota exceeded"

\* The identifiers and files of the page list, in order.
Identities(ps) == [i \in DOMAIN ps |-> <<ps[i].id, ps[i].file>>]

\* C15: batch dispatch, retry, toggle, select-all and the settlement of OCR
\* calls never add, remove or reorder pages nor change a page's identifier;
\* starting a PDF load empties the page list and the selection set.
C15_PagesKept ==
    [][/\ (\/ Ran("processSelectedPages") \/ Ran("batchCallSettled")
           \/ Ran("retryPageProcessing") \/ Ran("retryCallSettled")
           \/ Ran("handleToggleSelectPage") \/ Ran("handleSelectAll"))
              => Identities(pages') = Identities(pages)
       /\ (Ran("handlePdfFile") /\ lastOp'.file = "application/pdf")
              => (pages' = <<>> /\ selectedPages' = {})]_vars

\* Two pages went through a batch in which one failed, and both are still in
\* the list in PDF order.
C15_Witness ==
    /\ Len(pages) = 2
    /\ pages[1].file = 1 /\ pages[2].file = 2
    /\ pages[1].status = FAILED
    /\ pages[2].status = COMPLETED
    /\ DOMAIN calls = PageIds(pages)

\* C16: whenever a page is Processing, isProcessing is true.
C16_ProcessingImpliesFlag ==
    (\E i \in DOMAIN pages : pages[i].status = PROCESSING) => isProcessing

\* A retry is in flight while other pages are selected: Process Selected is
\* disabled although the selection is not empty.
C16_Witness ==
    /\ running = "retry"
    /\ isProcessing
    /\ selectedPages # {}
    /\ \E pageId \in DOMAIN calls : StatusOf(pageId) = PROCESSING

\* C17: once a page is Completed its status and text never change while it is
\* in the page list.
C17_CompletedIsFinal ==
    [][\A pageId \in PageIds(pages) \cap PageIds(pages') :
          PageOf(pages, pageId).status = COMPLETED =>
              /\ PageOf(pages', pageId).status = COMPLETED
              /\ PageOf(pages', pageId).text = PageOf(pages, pageId).text]_vars

\* Process Selected was clicked with only Completed pages selected: nothing
\* was dispatched and the pages are still Completed.
C17_Witness ==
    /\ lastOp.op = "processSelectedPages"
    /\ calls = <<>>
    /\ running = "none"
    /\ \E i \in DOMAIN pages : pages[i].status = COMPLETED

C19_SelectionWithinPages == selectedPages \subseteq PageIds(pages)

\* Every page of a two-page list is selected by select-all.
C19_Witness ==
    /\ lastOp.op = "handleSelectAll"
    /\ Len(pages) = 2
    /\ selectedPages = PageIds(pages)

\* The page tile a run of handleToggleSelectPage was clicked on.
Toggled == lastOp'.arg

\* C20: a toggle flips the membership of the clicked page's identifier and of
\* no other, whatever the page's status and whether processing is in flight;
\* it changes no page; two toggles of the same page in a row restore the
\* selection set.
C20_Toggle ==
    [][Ran("handleToggleSelectPage") =>
          /\ (Toggled \in selectedPages') <=> (Toggled \notin selectedPages)
          /\ selectedPages' \ {Toggled} = selectedPages \ {Toggled}
          /\ pages' = pages
          /\ (lastOp.op = "handleToggleSelectPage" /\ lastOp.arg = Toggled)
                => selectedPages' = lastOp.before]_vars

\* A page that is Processing in a running batch was toggled twice in a row
\* and is selected as it was at dispatch.
C20_Witness ==
    /\ lastOp.op = "handleToggleSelectPage"
    /\ running = "batch"
    /\ StatusOf(lastOp.arg) = PROCESSING
    /\ lastOp.arg \notin lastOp.before
    /\ lastOp.arg \in selectedPages

\* C21: a run of handlePdfFile that is handed no file, or a file whose type is
\* not application/pdf, changes nothing: the page list, the selection set and
\* the PDF-loading flag are what they were, and so are the processing flag and
\* the calls in flight.
C21_RejectedFileChangesNothing ==
    [][(Ran("handlePdfFile") /\ lastOp'.file # "application/pdf") =>
          UNCHANGED <<pages, selectedPages, isPdfLoading,
                      isProcessing, running, calls>>]_vars

\* An image was submitted to the upload zone and no load has started.
C21_Witness ==
    /\ lastOp.op = "handlePdfFile"
    /\ lastOp.file = "image/png"
    /\ UploadZoneShown
    /\ ~isPdfLoading

\* No file at all was submitted and no load has started.
C21_WitnessNoFile ==
    /\ lastOp.op = "handlePdfFile"
    /\ lastOp.file = "null"
    /\ UploadZoneShown
    /\ ~isPdfLoading

====
